---- MODULE Spec2Model ----
(***************************************************************************)
(* Organization Management Service (src/main.py): the tenant lifecycle     *)
(* (create / update-rename / delete / login) over three stores:            *)
(*   master_db.organizations  (the Tenant Directory)      -> orgs          *)
(*   master_db.admins         (the Credential Store)      -> admins        *)
(*   orgs_db.<collection>     (the tenant partitions)     -> colls         *)
(* Every handler is modelled as the sequence of its store reads and        *)
(* writes; a worker holds the handler's local variables between them.      *)
(* Strings that the code normalises (tenant names, collection names) are   *)
(* sequences of one-character strings so that strip / lower / replace are  *)
(* computed, not assumed.                                                  *)
(***************************************************************************)
EXTENDS Integers, Sequences, FiniteSets, TLC

\* ------------------------------------------------------------------ bounds
\* creates that pass the existence check (each one allocates fresh ObjectIds)
MaxCreates == 2
\* records the tenant applications write into partitions, in total
MaxDocs == 2
\* tokens issued by /admin/login
MaxTokens == 1
\* clock advances
MaxTicks == 1
\* length of the names get_org_collection_name is applied to on its own
MaxNameLen == 4

\* create_access_token(token_data, expires_minutes=60)
ExpiresMinutes == 60
\* one clock advance: just past one token lifetime
TickMinutes == ExpiresMinutes + 1

\* the handler threads of the server
Workers == {1, 2}

\* request inputs
RawNames == {<<"a">>, <<"A">>, <<"b">>, <<" ", "a">>}
\* the tenant names an unsigned token claims
ForgedNames == {<<"a">>}
Emails == {"e1", "e2"}
Passwords == {"p1", "p2"}
\* accounts are created with FirstPassword; updates set NewEmail, NewPassword
FirstPassword == "p1"
NewEmail == "e2"
NewPassword == "p2"
RecIds == {<<"rec", 1>>, <<"rec", 2>>}
RecVals == {"x"}
\* an absent Optional[str] field and an empty string are both falsy in Python
NoName == <<>>
NoStr == ""

\* ------------------------------------------------- strings (str methods)
\* str.strip() removes every whitespace character; the names here use two
IsSpace(c) == c \in {" ", "\t"}

LowerChar(c) == IF c = "A" THEN "a" ELSE IF c = "B" THEN "b" ELSE c

RECURSIVE LStrip(_)
LStrip(s) == IF s # <<>> /\ IsSpace(Head(s)) THEN LStrip(Tail(s)) ELSE s

RECURSIVE RStrip(_)
RStrip(s) ==
    IF s # <<>> /\ IsSpace(s[Len(s)]) THEN RStrip(SubSeq(s, 1, Len(s) - 1)) ELSE s

\* str.strip()
strip(s) == RStrip(LStrip(s))

\* str.lower()
lower(s) == [i \in 1..Len(s) |-> LowerChar(s[i])]

\* str.replace(old, new) for one-character old and new
replace(s, old, new) == [i \in 1..Len(s) |-> IF s[i] = old THEN new ELSE s[i]]

\* get_org_collection_name: f"org_{org_name.strip().lower().replace(' ', '_')}"
get_org_collection_name(org_name) ==
    <<"o", "r", "g", "_">> \o replace(lower(strip(org_name)), " ", "_")

\* ------------------------------------------------- passwords and ids
\* bcrypt.hashpw / bcrypt.checkpw: the hash verifies exactly the password hashed
hash_password(password) == <<"bcrypt", password>>

verify_password(password, hashed) == hashed = <<"bcrypt", password>>

\* ObjectIds are generated on insert and never repeat: the serial number k of
\* the create request that makes them stands for the fresh value
ObjectId(kind, k) == <<kind, k>>

\* str(ObjectId): the hex text of the id (admin_login puts it in the token)
str(oid) == <<"hex", oid[1], oid[2]>>

\* ------------------------------------------------- collections of orgs_db
\* colls maps each existing collection name to its documents in natural order
find(cs, name) == IF name \in DOMAIN cs THEN cs[name] ELSE <<>>

DocIds(docs) == {docs[i].id : i \in 1..Len(docs)}

put(cs, name, docs) ==
    [c \in DOMAIN cs \cup {name} |-> IF c = name THEN docs ELSE cs[c]]

\* Collection.insert_one: creates the collection when it does not exist
insert_one(cs, name, doc) == put(cs, name, Append(find(cs, name), doc))

RECURSIVE Without(_, _)
Without(docs, id) ==
    IF docs = <<>> THEN <<>>
    ELSE IF Head(docs).id = id THEN Tail(docs)
    ELSE <<Head(docs)>> \o Without(Tail(docs), id)

\* Collection.delete_one({"_id": id}): the collection itself stays
delete_one(cs, name, id) ==
    IF name \in DOMAIN cs THEN put(cs, name, Without(cs[name], id)) ELSE cs

\* Collection.insert_many(docs), ordered: documents are inserted in order up to
\* the first duplicate _id, which raises BulkWriteError
RECURSIVE InsertOrdered(_, _)
InsertOrdered(coll, docs) ==
    IF docs = <<>> THEN [docs |-> coll, ok |-> TRUE]
    ELSE IF Head(docs).id \in DocIds(coll) THEN [docs |-> coll, ok |-> FALSE]
    ELSE InsertOrdered(Append(coll, Head(docs)), Tail(docs))

insert_many(cs, name, docs) ==
    LET r == InsertOrdered(find(cs, name), docs)
    IN  [colls |-> IF r.docs = <<>> THEN cs ELSE put(cs, name, r.docs), ok |-> r.ok]

\* Database.drop_collection: a missing collection is not an error
drop_collection(cs, name) == [c \in DOMAIN cs \ {name} |-> cs[c]]

\* ------------------------------------------------------------------ state
VARIABLES
    orgs,     \* master_db.organizations: set of documents
    admins,   \* master_db.admins: set of documents
    colls,    \* orgs_db: collection name -> documents
    tokens,   \* payloads of the tokens /admin/login has signed
    now,      \* wall clock, minutes
    nextId,   \* creates that allocated ObjectIds so far
    reqs      \* per worker: the request it is handling and the handler's locals

vars == <<orgs, admins, colls, tokens, now, nextId, reqs>>

Idle == [op |-> "idle"]

\* no request is being handled
Quiet == \A p \in Workers : reqs[p] = Idle

Init ==
    /\ orgs = {}
    /\ admins = {}
    /\ colls = <<>>
    /\ tokens = {}
    /\ now = 0
    /\ nextId = 0
    /\ reqs = [p \in Workers |-> Idle]

\* find_one(...) that matched nothing
NoDoc == [id |-> <<"none", 0>>]

\* Collection.find_one(filter) over the matching documents: the first in natural
\* order, which is the order of insertion (updates are in place)
find_one(matching) ==
    IF matching = {} THEN NoDoc
    ELSE CHOOSE d \in matching : \A e \in matching : d.id[2] <= e.id[2]

\* the stores as a request finds them when it arrives (kept with the request
\* for stating what the request changed; the handlers never read it)
Pre == [orgs |-> orgs, admins |-> admins, colls |-> colls]

\* worker p is at step pc of handler op
At(p, op, pc) == reqs[p].op = op /\ reqs[p].pc = pc /\ reqs[p].status = 0

\* raise HTTPException(status_code=...) / return {...}: the handler ends
Respond(r, status) == [r EXCEPT !.pc = "done", !.status = status]

\* ------------------------------------------------------- POST /org/create
CreateReq(organization_name, email, password) ==
    [op |-> "create", pc |-> "start", status |-> 0, pre |-> Pre, k |-> 0,
     org_name |-> strip(organization_name), email |-> email, password |-> password]

\* lines 160-165: strip the name, look it up, 400 when it exists
CreateStart(p, organization_name, email, password) ==
    /\ reqs[p] = Idle
    /\ LET r == CreateReq(organization_name, email, password)
           existing == {o \in orgs : o.organization_name = r.org_name}
       IN  IF existing # {}
           THEN /\ reqs' = [reqs EXCEPT ![p] = Respond(r, 400)]
                /\ UNCHANGED nextId
           ELSE /\ nextId < MaxCreates
                /\ nextId' = nextId + 1
                /\ reqs' = [reqs EXCEPT ![p] =
                        [r EXCEPT !.pc = "insert_admin", !.k = nextId + 1]]
    /\ UNCHANGED <<orgs, admins, colls, tokens, now>>

\* the document of lines 169-174
admin_doc(k, email, password, org_name) ==
    [id |-> ObjectId("admin", k), email |-> email,
     password |-> hash_password(password), organization_name |-> org_name]

\* lines 167-176: admins_collection.insert_one(admin_doc)
CreateInsertAdmin(p) ==
    /\ At(p, "create", "insert_admin")
    /\ LET r == reqs[p]
       IN  /\ admins' = admins \cup {admin_doc(r.k, r.email, r.password, r.org_name)}
           /\ reqs' = [reqs EXCEPT ![p].pc = "insert_dummy"]
    /\ UNCHANGED <<orgs, colls, tokens, now, nextId>>

\* lines 179-185: org_collection.insert_one(dummy)
CreateInsertDummy(p) ==
    /\ At(p, "create", "insert_dummy")
    /\ LET r == reqs[p]
       IN  /\ colls' = insert_one(colls, get_org_collection_name(r.org_name),
                 [id |-> ObjectId("init", r.k), val |-> "init_doc"])
           /\ reqs' = [reqs EXCEPT ![p].pc = "delete_dummy"]
    /\ UNCHANGED <<orgs, admins, tokens, now, nextId>>

\* line 186: org_collection.delete_one({"_id": init_id})
CreateDeleteDummy(p) ==
    /\ At(p, "create", "delete_dummy")
    /\ LET r == reqs[p]
       IN  /\ colls' = delete_one(colls, get_org_collection_name(r.org_name),
                 ObjectId("init", r.k))
           /\ reqs' = [reqs EXCEPT ![p].pc = "insert_org"]
    /\ UNCHANGED <<orgs, admins, tokens, now, nextId>>

\* the document of lines 189-195
org_doc(k, org_name) ==
    [id |-> ObjectId("org", k), organization_name |-> org_name,
     collection_name |-> get_org_collection_name(org_name),
     admin_id |-> ObjectId("admin", k)]

\* lines 188-205: orgs_collection.insert_one(org_doc), then the 200 response
CreateInsertOrg(p) ==
    /\ At(p, "create", "insert_org")
    /\ LET r == reqs[p]
       IN  /\ orgs' = orgs \cup {org_doc(r.k, r.org_name)}
           /\ reqs' = [reqs EXCEPT ![p] = Respond(r, 200)]
    /\ UNCHANGED <<admins, colls, tokens, now, nextId>>

\* ---------------------------------------------------------- GET /org/get
\* lines 212-218
GetOrg(p, organization_name) ==
    /\ reqs[p] = Idle
    /\ LET name == strip(organization_name)
           found == {o \in orgs : o.organization_name = name}
           r == [op |-> "get", pc |-> "start", status |-> 0, pre |-> Pre, name |-> name,
                 org |-> NoDoc]
       IN  IF found = {}
           THEN reqs' = [reqs EXCEPT ![p] = Respond(r, 404)]
           ELSE reqs' = [reqs EXCEPT ![p] =
                    Respond([r EXCEPT !.org = find_one(found)], 200)]
    /\ UNCHANGED <<orgs, admins, colls, tokens, now, nextId>>

\* ------------------------------------------------------ POST /admin/login
\* a variant of UnknownEmailError that tells the caller the email is unknown;
\* C16 does not hold of it
AdminNotFoundError == [status |-> 404, detail |-> "Admin not found"]

\* line 341: raise HTTPException(status_code=401, detail="Invalid credentials")
UnknownEmailError == [status |-> 401, detail |-> "Invalid credentials"]

\* line 344: raise HTTPException(status_code=401, detail="Invalid credentials")
WrongPasswordError == [status |-> 401, detail |-> "Invalid credentials"]

\* raise HTTPException(status_code=..., detail=...): the handler ends
RespondError(r, error) ==
    [r EXCEPT !.pc = "done", !.status = error.status, !.detail = error.detail]

\* lines 339-344: find the admin by email, verify the password; what the
\* handler decides from the Credential Store as
LoginOutcome(as, email, password) ==
    LET found == {a \in as : a.email = email}
    IN  IF found = {} THEN UnknownEmailError
        ELSE IF ~verify_password(password, find_one(found).password)
        THEN WrongPasswordError
        ELSE [status |-> 200, detail |-> NoStr]

\* lines 337-344
LoginStart(p, email, password) ==
    /\ reqs[p] = Idle
    /\ LET found == {a \in admins : a.email = email}
           r == [op |-> "login", pc |-> "start", status |-> 0, detail |-> NoStr,
                 pre |-> Pre, email |-> email,
                 password |-> password, admin_doc |-> NoDoc, token |-> NoDoc]
           outcome == LoginOutcome(admins, email, password)
       IN  IF outcome.status # 200
           THEN reqs' = [reqs EXCEPT ![p] = RespondError(r, outcome)]
           ELSE reqs' = [reqs EXCEPT ![p] =
                    [r EXCEPT !.pc = "find_org", !.admin_doc = find_one(found)]]
    /\ UNCHANGED <<orgs, admins, colls, tokens, now, nextId>>

\* create_access_token: the payload that gets signed
create_access_token(admin_id, org_name, expires_minutes) ==
    [admin_id |-> admin_id, organization_name |-> org_name,
     exp |-> now + expires_minutes]

\* lines 346-356: the org of this admin names the tenant in the token
LoginIssue(p) ==
    /\ At(p, "login", "find_org")
    /\ LET r == reqs[p]
           found == {o \in orgs : o.admin_id = r.admin_doc.id}
           org_name == IF found = {} THEN r.admin_doc.organization_name
                       ELSE find_one(found).organization_name
           t == create_access_token(str(r.admin_doc.id), org_name, ExpiresMinutes)
       IN  /\ tokens' = tokens \cup {t}
           /\ reqs' = [reqs EXCEPT ![p] = Respond([r EXCEPT !.token = t], 200)]
    /\ UNCHANGED <<orgs, admins, colls, now, nextId>>

\* ------------------------------------------------------- bearer tokens
\* what a client can present: a token the server signed, or one it did not
Credentials ==
    {[payload |-> t, signed |-> TRUE] : t \in tokens}
    \cup {[payload |-> [admin_id |-> str(ObjectId("admin", 1)),
                        organization_name |-> n,
                        exp |-> (MaxTicks + 1) * TickMinutes],
           signed |-> FALSE] : n \in ForgedNames}

\* a variant of TokenValid that does not check the signature; C18 does not hold
\* of it
TokenValidUnverified(cred) == now <= cred.payload.exp

\* get_current_admin, lines 136-142: jwt.decode checks the signature and exp
TokenValid(cred) == cred.signed /\ now <= cred.payload.exp

\* a variant of Authorized that lets every decoded token through; C19 does not
\* hold of it
AuthorizedAlways(admin, name) == TRUE

\* a variant of Authorized that ignores case; C8 does not hold of it
AuthorizedIgnoringCase(admin, name) == lower(admin.organization_name) = lower(name)

\* line 234 / line 313: admin.get("organization_name") != name  ->  403
Authorized(admin, name) == admin.organization_name = name

\* ------------------------------------------------------- PUT /org/update
\* the handler's locals; the payload fields are filled in where the handler first
\* gets past its checks (a rejected request never reads them)
UpdateReq(cred, current) ==
    [op |-> "update", pc |-> "start", status |-> 0, pre |-> Pre,
     signed |-> cred.signed,
     admin |-> cred.payload, target |-> current, current_name |-> strip(current),
     rename |-> FALSE, new_name |-> NoName, new_email |-> NoStr,
     new_password |-> NoStr,
     org |-> NoDoc, docs |-> <<>>, admin_doc |-> NoDoc, updated_org |-> NoDoc]

\* lines 226-239 (and the branch of line 244)
UpdateStart(p, cred, current, new, new_email, new_password) ==
    /\ reqs[p] = Idle
    /\ LET r == UpdateReq(cred, current)
           found == {o \in orgs : o.organization_name = r.current_name}
       IN  IF ~TokenValid(cred)
           THEN reqs' = [reqs EXCEPT ![p] = Respond(r, 401)]
           ELSE IF ~Authorized(r.admin, r.current_name)
           THEN reqs' = [reqs EXCEPT ![p] = Respond(r, 403)]
           ELSE IF found = {}
           THEN reqs' = [reqs EXCEPT ![p] = Respond(r, 404)]
           ELSE reqs' = [reqs EXCEPT ![p] =
                        [r EXCEPT !.org = find_one(found),
                                  !.rename = new # NoName, !.new_name = strip(new),
                                  !.new_email = new_email,
                                  !.new_password = new_password,
                                  !.pc = IF new # NoName THEN "check_new"
                                         ELSE "find_admin"]]
    /\ UNCHANGED <<orgs, admins, colls, tokens, now, nextId>>

\* a variant of UpdateCheckNew that goes on whoever holds the new name; C14 does
\* not hold of it
UpdateCheckNewSkipped(p) ==
    /\ At(p, "update", "check_new")
    /\ reqs' = [reqs EXCEPT ![p].pc = "read_docs"]
    /\ UNCHANGED <<orgs, admins, colls, tokens, now, nextId>>

\* lines 245-251: the new name must not belong to another organization
UpdateCheckNew(p) ==
    /\ At(p, "update", "check_new")
    /\ LET r == reqs[p]
           existing == {o \in orgs : o.organization_name = r.new_name /\ o.id # r.org.id}
       IN  IF existing # {}
           THEN reqs' = [reqs EXCEPT ![p] = Respond(r, 400)]
           ELSE reqs' = [reqs EXCEPT ![p].pc = "read_docs"]
    /\ UNCHANGED <<orgs, admins, colls, tokens, now, nextId>>

\* lines 254-262: docs = list(old_coll.find())
UpdateReadDocs(p) ==
    /\ At(p, "update", "read_docs")
    /\ LET r == reqs[p]
           docs == find(colls, r.org.collection_name)
       IN  reqs' = [reqs EXCEPT ![p] =
               [r EXCEPT !.docs = docs,
                         !.pc = IF docs # <<>> THEN "insert_many" ELSE "drop_old"]]
    /\ UNCHANGED <<orgs, admins, colls, tokens, now, nextId>>

\* line 263: new_coll.insert_many(docs); a duplicate _id raises (500)
UpdateInsertMany(p) ==
    /\ At(p, "update", "insert_many")
    /\ LET r == reqs[p]
           res == insert_many(colls, get_org_collection_name(r.new_name), r.docs)
       IN  /\ colls' = res.colls
           /\ reqs' = [reqs EXCEPT ![p] =
                 IF res.ok THEN [r EXCEPT !.pc = "drop_old"] ELSE Respond(r, 500)]
    /\ UNCHANGED <<orgs, admins, tokens, now, nextId>>

\* line 265: orgs_db.drop_collection(old_collection_name)
UpdateDropOld(p) ==
    /\ At(p, "update", "drop_old")
    /\ colls' = drop_collection(colls, reqs[p].org.collection_name)
    /\ reqs' = [reqs EXCEPT ![p].pc = "rename_admins"]
    /\ UNCHANGED <<orgs, admins, tokens, now, nextId>>

\* a variant of RenameAdminRefs that leaves the admins as they are; C12 does not
\* hold of it
RenameAdminRefsSkipped(as, current_name, new_name) == as

\* lines 271-274: admins_collection.update_many by the old organization_name
RenameAdminRefs(as, current_name, new_name) ==
    {IF a.organization_name = current_name
     THEN [a EXCEPT !.organization_name = new_name] ELSE a : a \in as}

UpdateRenameAdmins(p) ==
    /\ At(p, "update", "rename_admins")
    /\ admins' = RenameAdminRefs(admins, reqs[p].current_name, reqs[p].new_name)
    /\ reqs' = [reqs EXCEPT ![p].pc = "find_admin"]
    /\ UNCHANGED <<orgs, colls, tokens, now, nextId>>

\* line 278: the name the admin document is looked up by
AdminLookupName(r) == r.current_name

\* lines 278-286: find the admin of the organization; is there anything to set?
UpdateFindAdmin(p) ==
    /\ At(p, "update", "find_admin")
    /\ LET r == reqs[p]
           found == {a \in admins : a.organization_name = AdminLookupName(r)}
       IN  IF found = {} \/ (r.new_email = NoStr /\ r.new_password = NoStr)
           THEN reqs' = [reqs EXCEPT ![p].pc = "update_org"]
           ELSE reqs' = [reqs EXCEPT ![p] =
                    [r EXCEPT !.admin_doc = find_one(found), !.pc = "update_admin"]]
    /\ UNCHANGED <<orgs, admins, colls, tokens, now, nextId>>

\* lines 280-284: the fields to set on the admin document
ApplyAdminUpdates(a, new_email, new_password) ==
    [a EXCEPT !.email = IF new_email # NoStr THEN new_email ELSE @,
              !.password = IF new_password # NoStr
                           THEN hash_password(new_password) ELSE @]

\* lines 287-289: admins_collection.update_one by _id
UpdateAdmin(p) ==
    /\ At(p, "update", "update_admin")
    /\ LET r == reqs[p]
       IN  admins' = {IF a.id = r.admin_doc.id
                      THEN ApplyAdminUpdates(a, r.new_email, r.new_password)
                      ELSE a : a \in admins}
    /\ reqs' = [reqs EXCEPT ![p].pc = "update_org"]
    /\ UNCHANGED <<orgs, colls, tokens, now, nextId>>

\* a variant of ApplyOrgUpdates that leaves collection_name; C10 does not hold of it
ApplyOrgUpdatesNameOnly(o, new_name) == [o EXCEPT !.organization_name = new_name]

\* lines 267-268: updates = {organization_name, collection_name}
ApplyOrgUpdates(o, new_name) ==
    [o EXCEPT !.organization_name = new_name,
              !.collection_name = get_org_collection_name(new_name)]

\* lines 291-292: orgs_collection.update_one by _id, one write for both fields
UpdateOrg(p) ==
    /\ At(p, "update", "update_org")
    /\ LET r == reqs[p]
       IN  orgs' = IF r.rename
                   THEN {IF o.id = r.org.id THEN ApplyOrgUpdates(o, r.new_name)
                         ELSE o : o \in orgs}
                   ELSE orgs
    /\ reqs' = [reqs EXCEPT ![p].pc = "find_updated"]
    /\ UNCHANGED <<admins, colls, tokens, now, nextId>>

\* lines 294-298: read the document back and answer 200
UpdateFindUpdated(p) ==
    /\ At(p, "update", "find_updated")
    /\ LET r == reqs[p]
           found == {o \in orgs : o.id = r.org.id}
       IN  reqs' = [reqs EXCEPT ![p] =
               Respond([r EXCEPT !.updated_org = find_one(found)], 200)]
    /\ UNCHANGED <<orgs, admins, colls, tokens, now, nextId>>

\* ---------------------------------------------------- DELETE /org/delete
DeleteReq(cred, organization_name) ==
    [op |-> "delete", pc |-> "start", status |-> 0, pre |-> Pre,
     signed |-> cred.signed,
     admin |-> cred.payload, target |-> organization_name,
     org_name |-> strip(organization_name), org |-> NoDoc]

\* lines 306-318
DeleteStart(p, cred, organization_name) ==
    /\ reqs[p] = Idle
    /\ LET r == DeleteReq(cred, organization_name)
           found == {o \in orgs : o.organization_name = r.org_name}
       IN  IF ~TokenValid(cred)
           THEN reqs' = [reqs EXCEPT ![p] = Respond(r, 401)]
           ELSE IF ~Authorized(r.admin, r.org_name)
           THEN reqs' = [reqs EXCEPT ![p] = Respond(r, 403)]
           ELSE IF found = {}
           THEN reqs' = [reqs EXCEPT ![p] = Respond(r, 404)]
           ELSE reqs' = [reqs EXCEPT ![p] =
                    [r EXCEPT !.org = find_one(found), !.pc = "drop"]]
    /\ UNCHANGED <<orgs, admins, colls, tokens, now, nextId>>

\* lines 321-322: orgs_db.drop_collection(collection_name)
DeleteDrop(p) ==
    /\ At(p, "delete", "drop")
    /\ colls' = drop_collection(colls, reqs[p].org.collection_name)
    /\ reqs' = [reqs EXCEPT ![p].pc = "delete_org"]
    /\ UNCHANGED <<orgs, admins, tokens, now, nextId>>

\* line 325: orgs_collection.delete_one by _id
DeleteOrgDoc(p) ==
    /\ At(p, "delete", "delete_org")
    /\ orgs' = {o \in orgs : o.id # reqs[p].org.id}
    /\ reqs' = [reqs EXCEPT ![p].pc = "delete_admins"]
    /\ UNCHANGED <<admins, colls, tokens, now, nextId>>

\* lines 328-330: admins_collection.delete_many by organization_name, then 200
DeleteAdmins(p) ==
    /\ At(p, "delete", "delete_admins")
    /\ admins' = {a \in admins : a.organization_name # reqs[p].org_name}
    /\ reqs' = [reqs EXCEPT ![p] = Respond(reqs[p], 200)]
    /\ UNCHANGED <<orgs, colls, tokens, now, nextId>>

\* ------------------------------------------------------- environment
\* the response leaves the server; the worker is free again
Return(p) ==
    /\ reqs[p] # Idle /\ reqs[p].pc = "done"
    /\ reqs' = [reqs EXCEPT ![p] = Idle]
    /\ UNCHANGED <<orgs, admins, colls, tokens, now, nextId>>

TotalDocs == LET Sum[S \in SUBSET DOMAIN colls] ==
                     IF S = {} THEN 0
                     ELSE LET c == CHOOSE x \in S : TRUE
                          IN  Len(colls[c]) + Sum[S \ {c}]
             IN  Sum[DOMAIN colls]

\* the server process dies inside a handler: the request stops where it is
Crash(p) ==
    /\ reqs[p] # Idle /\ reqs[p].pc # "done" /\ reqs[p].status = 0
    /\ reqs' = [reqs EXCEPT ![p].status = -1]
    /\ UNCHANGED <<orgs, admins, colls, tokens, now, nextId>>

\* the server is started again
Restart(p) ==
    /\ reqs[p] # Idle /\ reqs[p].status = -1
    /\ reqs' = [reqs EXCEPT ![p] = Idle]
    /\ UNCHANGED <<orgs, admins, colls, tokens, now, nextId>>

\* a tenant application writes a record into the partition of its tenant
\* (orgs_db holds the per-organization collections, lines 36-37)
WriteRecord(name, id, val) ==
    /\ Quiet
    /\ name \in {o.collection_name : o \in orgs}
    /\ id \notin DocIds(find(colls, name))
    /\ TotalDocs < MaxDocs
    /\ colls' = insert_one(colls, name, [id |-> id, val |-> val])
    /\ UNCHANGED <<orgs, admins, tokens, now, nextId, reqs>>

\* time passes (datetime.utcnow() of lines 80 and jwt.decode's exp check)
Tick ==
    /\ Quiet
    /\ now < MaxTicks * TickMinutes
    /\ now' = now + TickMinutes
    /\ UNCHANGED <<orgs, admins, colls, tokens, nextId, reqs>>

\* ------------------------------------------------------- specifications
CollNames == {get_org_collection_name(n) : n \in RawNames}

CreateSteps(p) ==
    \/ CreateInsertAdmin(p)
    \/ CreateInsertDummy(p)
    \/ CreateDeleteDummy(p)
    \/ CreateInsertOrg(p)

UpdateSteps(p) ==
    \/ UpdateCheckNew(p)
    \/ UpdateReadDocs(p)
    \/ UpdateInsertMany(p)
    \/ UpdateDropOld(p)
    \/ UpdateRenameAdmins(p)
    \/ UpdateFindAdmin(p)
    \/ UpdateAdmin(p)
    \/ UpdateOrg(p)
    \/ UpdateFindUpdated(p)

DeleteSteps(p) ==
    \/ DeleteDrop(p)
    \/ DeleteOrgDoc(p)
    \/ DeleteAdmins(p)

Steps(p) ==
    \/ CreateSteps(p)
    \/ LoginIssue(p)
    \/ UpdateSteps(p)
    \/ DeleteSteps(p)
    \/ Return(p)

Requests(p) ==
    \/ \E n \in RawNames, e \in Emails : CreateStart(p, n, e, FirstPassword)
    \/ \E n \in RawNames : GetOrg(p, n)
    \/ /\ Cardinality(tokens) < MaxTokens
       /\ \E e \in Emails, pw \in Passwords : LoginStart(p, e, pw)
    \/ \E c \in Credentials, n \in RawNames, m \in RawNames \cup {NoName},
          e \in {NoStr, NewEmail}, pw \in {NoStr, NewPassword} :
            UpdateStart(p, c, n, m, e, pw)
    \/ \E c \in Credentials, n \in RawNames : DeleteStart(p, c, n)

Environment ==
    \/ \E name \in CollNames, id \in RecIds, val \in RecVals : WriteRecord(name, id, val)
    \/ Tick

\* requests are handled one at a time, each to completion
Next ==
    \/ Quiet /\ Requests(1)
    \/ Steps(1)
    \/ Environment

Spec == Init /\ [][Next]_vars

\* requests are handled one at a time, and the server may die between any two
\* steps of an update; tenants are created, renamed and deleted under CrashNames
CrashNames == {<<"a">>, <<"b">>}

CrashRequests(p) ==
    \/ \E n \in CrashNames : CreateStart(p, n, "e1", FirstPassword)
    \/ Cardinality(tokens) < MaxTokens /\ LoginStart(p, "e1", FirstPassword)
    \/ \E c \in Credentials, n \in CrashNames, m \in CrashNames :
           c.signed /\ UpdateStart(p, c, n, m, NoStr, NoStr)
    \/ \E c \in Credentials, n \in CrashNames : c.signed /\ DeleteStart(p, c, n)

NextCrash ==
    \/ Quiet /\ CrashRequests(1)
    \/ CreateSteps(1)
    \/ LoginIssue(1)
    \/ UpdateCheckNew(1)
    \/ UpdateReadDocs(1)
    \/ UpdateInsertMany(1)
    \/ UpdateDropOld(1)
    \/ UpdateRenameAdmins(1)
    \/ UpdateFindAdmin(1)
    \/ UpdateOrg(1)
    \/ UpdateFindUpdated(1)
    \/ DeleteSteps(1)
    \/ Return(1)
    \/ \E name \in CollNames, id \in RecIds, val \in RecVals : WriteRecord(name, id, val)
    \/ reqs[1].op = "update" /\ Crash(1)
    \/ Restart(1)

SpecCrash == Init /\ [][NextCrash]_vars

\* two handler threads serve create, login and rename requests at once;
\* every store read and write of one may fall between those of the other
ConcNames == {<<"a">>, <<"b">>}

ConcRequests(p) ==
    /\ reqs[p] = Idle
    /\ \/ \E n \in ConcNames : CreateStart(p, n, "e1", "p1")
       \/ Cardinality(tokens) < MaxTokens /\ LoginStart(p, "e1", "p1")
       \/ \E c \in Credentials, n \in ConcNames, m \in ConcNames :
              /\ c.signed
              /\ UpdateStart(p, c, n, m, NoStr, NoStr)

NextConc ==
    \E p \in Workers :
        \/ ConcRequests(p)
        \/ CreateSteps(p)
        \/ LoginIssue(p)
        \/ UpdateCheckNew(p)
        \/ UpdateReadDocs(p)
        \/ UpdateDropOld(p)
        \/ UpdateRenameAdmins(p)
        \/ UpdateFindAdmin(p)
        \/ UpdateOrg(p)
        \/ UpdateFindUpdated(p)
        \/ Return(p)

SpecConc == Init /\ [][NextConc]_vars

\* get_org_collection_name on its own: the name is any non-empty string of at
\* most MaxNameLen characters of DeriveAlphabet
DeriveAlphabet == {"a", "A", " ", "\t"}

DeriveNames == UNION {[1..n -> DeriveAlphabet] : n \in 1..MaxNameLen}

DeriveReq(org_name) ==
    [op |-> "derive", pc |-> "start", status |-> 0, org_name |-> org_name,
     collection_name |-> NoName]

InitDerive ==
    /\ orgs = {}
    /\ admins = {}
    /\ colls = <<>>
    /\ tokens = {}
    /\ now = 0
    /\ nextId = 0
    /\ \E n \in DeriveNames :
           reqs = [p \in Workers |-> IF p = 1 THEN DeriveReq(n) ELSE Idle]

\* lines 61-67: the call returns the collection name
CallGetOrgCollectionName(p) ==
    /\ At(p, "derive", "start")
    /\ reqs' = [reqs EXCEPT ![p] =
           Respond([reqs[p] EXCEPT
               !.collection_name = get_org_collection_name(reqs[p].org_name)], 200)]
    /\ UNCHANGED <<orgs, admins, colls, tokens, now, nextId>>

NextDerive == CallGetOrgCollectionName(1)

SpecDerive == InitDerive /\ [][NextDerive]_vars

\* two handler threads, at most two requests at a time: worker 1 serves the
\* requests one after the other, and while it is inside a create, rename or
\* delete worker 2 may take one create, rename or delete for another tenant name
PairNames == {<<"a">>, <<"b">>}

\* the tenant name a lifecycle request is for
OpName(r) == IF r.op = "update" THEN r.current_name ELSE r.org_name

Lifecycle(p) ==
    \/ \E n \in PairNames : CreateStart(p, n, "e1", FirstPassword)
    \/ \E c \in Credentials, n \in PairNames, m \in PairNames :
           c.signed /\ UpdateStart(p, c, n, m, NoStr, NoStr)
    \/ \E c \in Credentials, n \in PairNames : c.signed /\ DeleteStart(p, c, n)

PairRequests ==
    \/ Quiet /\ Lifecycle(1)
    \/ Quiet /\ Cardinality(tokens) < MaxTokens /\ LoginStart(1, "e1", FirstPassword)
    \/ /\ reqs[1].op \in {"create", "update", "delete"} /\ reqs[1].pc # "done"
       /\ Lifecycle(2)
       /\ OpName(reqs'[2]) # OpName(reqs[1])

NextPair ==
    \/ PairRequests
    \/ LoginIssue(1)
    \/ \E p \in Workers :
           \/ CreateSteps(p)
           \/ UpdateCheckNew(p)
           \/ UpdateReadDocs(p)
           \/ UpdateInsertMany(p)
           \/ UpdateDropOld(p)
           \/ UpdateRenameAdmins(p)
           \/ UpdateFindAdmin(p)
           \/ UpdateOrg(p)
           \/ UpdateFindUpdated(p)
           \/ DeleteSteps(p)
    \/ reqs[2] = Idle /\ Return(1)
    \/ reqs[1] # Idle /\ reqs[1].pc = "done" /\ Return(2)
    \/ \E name \in CollNames, id \in RecIds, val \in RecVals : WriteRecord(name, id, val)

SpecPair == Init /\ [][NextPair]_vars

\* requests are handled one at a time and an admin may log in any number of
\* times (the clock stands still, so the tokens are as many as the pairs of an
\* admin and a name it had); tenants are created, renamed and deleted under
\* LoginNames
LoginNames == {<<"a">>, <<"b">>}

LoginRequests(p) ==
    \/ \E n \in LoginNames, e \in Emails : CreateStart(p, n, e, FirstPassword)
    \/ \E e \in Emails : LoginStart(p, e, FirstPassword)
    \/ \E c \in Credentials, n \in LoginNames, m \in LoginNames :
           c.signed /\ UpdateStart(p, c, n, m, NoStr, NoStr)
    \/ \E c \in Credentials, n \in LoginNames : c.signed /\ DeleteStart(p, c, n)

NextLogin ==
    \/ Quiet /\ LoginRequests(1)
    \/ CreateSteps(1)
    \/ LoginIssue(1)
    \/ UpdateCheckNew(1)
    \/ UpdateReadDocs(1)
    \/ UpdateDropOld(1)
    \/ UpdateRenameAdmins(1)
    \/ UpdateFindAdmin(1)
    \/ UpdateOrg(1)
    \/ UpdateFindUpdated(1)
    \/ DeleteSteps(1)
    \/ Return(1)

SpecLogin == Init /\ [][NextLogin]_vars

\* ------------------------------------------------------- claims
\* the records of a sequence of documents, without their order
DocSet(docs) == {docs[i] : i \in 1..Len(docs)}

\* a partition as a client sees it: whether it exists, and its records
Partition(cs, name) == [exists |-> name \in DOMAIN cs, docs |-> DocSet(find(cs, name))]

\* worker p has answered a request of handler op
Answered(p, op) == reqs[p].op = op /\ reqs[p].pc = "done"

\* the Directory entry a lifecycle request acts on
TargetId(r) == IF r.op = "create" THEN ObjectId("org", r.k) ELSE r.org.id

\* C1: under any interleaving of create and rename requests, no two entries of
\* the Tenant Directory have the same name.
C1_UniqueNames ==
    \A o1 \in orgs, o2 \in orgs :
        o1.organization_name = o2.organization_name => o1.id = o2.id

\* C2: when the Directory holds a name with the same normalized form as the
\* (different) name of a create request, the create is rejected as AlreadyExists.
C2_CollidingCreateRejected ==
    \A p \in Workers :
        (/\ Answered(p, "create")
         /\ \E o \in reqs[p].pre.orgs :
                /\ o.organization_name # reqs[p].org_name
                /\ get_org_collection_name(o.organization_name)
                       = get_org_collection_name(reqs[p].org_name))
        => reqs[p].status = 400

\* C3: a create, rename or delete performed on tenant A leaves the records and
\* the existence of the partition of every other tenant B of the Directory
\* unchanged.
C3_Isolation ==
    \A p \in Workers :
        (/\ reqs[p].op \in {"create", "update", "delete"}
         /\ reqs[p].pc = "done" /\ reqs[p].status = 200)
        => \A B \in reqs[p].pre.orgs :
               (B.id # TargetId(reqs[p]) /\ B \in orgs)
               => Partition(colls, B.collection_name)
                      = Partition(reqs[p].pre.colls, B.collection_name)

\* C4: after a successful rename to a name that was not in the Directory, the
\* partition of the new name holds exactly the records the tenant's partition
\* held, and the old partition id no longer exists.
C4_RenamePreservesData ==
    \A p \in Workers :
        (/\ Answered(p, "update") /\ reqs[p].status = 200 /\ reqs[p].rename
         /\ \A o \in reqs[p].pre.orgs : o.organization_name # reqs[p].new_name)
        => /\ DocSet(find(colls, get_org_collection_name(reqs[p].new_name)))
                  = DocSet(find(reqs[p].pre.colls, reqs[p].org.collection_name))
           /\ reqs[p].org.collection_name \notin DOMAIN colls

\* C5: when a rename to another name is interrupted after any of its steps, the
\* tenant's Directory entry references a partition that still exists (the
\* partition existed when the rename began).
C5_CrashKeepsPartition ==
    \A p \in Workers :
        (/\ reqs[p].op = "update" /\ reqs[p].status = -1 /\ reqs[p].rename
         /\ reqs[p].new_name # reqs[p].current_name
         /\ reqs[p].org.collection_name \in DOMAIN reqs[p].pre.colls)
        => \A o \in orgs :
               o.id = reqs[p].org.id => o.collection_name \in DOMAIN colls

\* C6: an update request that carries a new name and a new email and/or
\* password applies both: after it succeeds the tenant's Credential holds the
\* new email and the hash of the new password.
C6_CombinedUpdateApplied ==
    \A p \in Workers :
        (/\ Answered(p, "update") /\ reqs[p].status = 200 /\ reqs[p].rename
         /\ (reqs[p].new_email # NoStr \/ reqs[p].new_password # NoStr))
        => \A a \in admins :
               a.id = reqs[p].org.admin_id
               => /\ reqs[p].new_email # NoStr => a.email = reqs[p].new_email
                  /\ reqs[p].new_password # NoStr
                         => verify_password(reqs[p].new_password, a.password)

\* C7: every update or delete that succeeds on a tenant was issued with a token
\* whose adminId is the tenant's adminRef.
C7_OnlyBoundAdmin ==
    \A p \in Workers :
        (/\ reqs[p].op \in {"update", "delete"}
         /\ reqs[p].pc = "done" /\ reqs[p].status = 200)
        => reqs[p].admin.admin_id = str(reqs[p].org.admin_id)

\* C8 (as stated): an update or delete with a valid token for tenant A and
\* target name B, A # B compared exactly, is answered Forbidden and changes no
\* store.
C8_ForbiddenExact ==
    \A p \in Workers :
        (/\ reqs[p].op \in {"update", "delete"}
         /\ reqs[p].pc = "done" /\ reqs[p].status # 401
         /\ reqs[p].admin.organization_name # reqs[p].target)
        => reqs[p].status = 403 /\ Pre = reqs[p].pre

\* C8 (amended): an update or delete with a valid token for tenant A and target
\* name B, where A differs from B with its surrounding whitespace removed, is
\* answered Forbidden, whether or not B exists, and changes no store.
C8_ForbiddenTrimmed ==
    \A p \in Workers :
        (/\ reqs[p].op \in {"update", "delete"}
         /\ reqs[p].pc = "done" /\ reqs[p].status # 401
         /\ reqs[p].admin.organization_name # strip(reqs[p].target))
        => reqs[p].status = 403 /\ Pre = reqs[p].pre

\* a valid token for one tenant was used against another tenant that exists
C8_Witness ==
    \E p \in Workers :
        /\ Answered(p, "update") /\ reqs[p].status = 403
        /\ \E o \in orgs : o.organization_name = strip(reqs[p].target)
        /\ \E o \in orgs : o.organization_name = reqs[p].admin.organization_name

\* no two Directory entries reference the same partition
NoSharedPartition ==
    \A o1 \in orgs, o2 \in orgs :
        o1.collection_name = o2.collection_name => o1.id = o2.id

\* C9: after completed create, rename and delete operations a partition exists
\* if and only if exactly one Directory entry references it (stated for the
\* Directories whose entries reference different partitions).
C9_PartitionIffEntry ==
    (Quiet /\ NoSharedPartition)
    => \A c \in DOMAIN colls \cup {o.collection_name : o \in orgs} :
           c \in DOMAIN colls <=> Cardinality({o \in orgs : o.collection_name = c}) = 1

\* C10: every Directory entry has partitionId = derivePartitionId(name), in
\* every state (rename writes both fields at once), and get returns such an
\* entry for the name asked.
C10_PartitionIdDerived ==
    /\ \A o \in orgs : o.collection_name = get_org_collection_name(o.organization_name)
    /\ \A p \in Workers :
           (Answered(p, "get") /\ reqs[p].status = 200)
           => /\ reqs[p].org.organization_name = reqs[p].name
              /\ reqs[p].org.collection_name = get_org_collection_name(reqs[p].name)

\* get has returned an entry that a rename gave another name and another
\* partition id than it had when its admin logged in
C10_Witness ==
    \E p \in Workers :
        /\ Answered(p, "get") /\ reqs[p].status = 200
        /\ \E t \in tokens :
               /\ t.admin_id = str(reqs[p].org.admin_id)
               /\ t.organization_name # reqs[p].org.organization_name
               /\ get_org_collection_name(t.organization_name)
                      # reqs[p].org.collection_name

\* C11: after any sequence of create and credential-update operations, no two
\* Credential records have the same email.
C11_UniqueEmails ==
    \A a1 \in admins, a2 \in admins : a1.email = a2.email => a1.id = a2.id

\* C12: after completed (non-interleaved) create, rename, credential-update and
\* delete operations, each Directory entry has exactly one Credential whose
\* tenantName is the entry's name, that Credential is the one the entry's
\* adminRef identifies, and no Credential has a tenantName absent from the
\* Directory.
C12_OneCredentialPerTenant ==
    Quiet =>
        /\ \A o \in orgs :
               LET creds == {a \in admins : a.organization_name = o.organization_name}
               IN  /\ Cardinality(creds) = 1
                   /\ \A a \in creds : a.id = o.admin_id
        /\ \A a \in admins :
               \E o \in orgs : o.organization_name = a.organization_name

\* two tenants are in the Directory, one of them under another name than the
\* one its admin logged in with (it was renamed since)
C12_Witness ==
    /\ Quiet
    /\ Cardinality(orgs) = 2
    /\ \E o \in orgs, t \in tokens, a \in admins :
           /\ t.admin_id = str(o.admin_id)
           /\ t.organization_name # o.organization_name
           /\ a.id = o.admin_id

\* the Credential a delete request removes with its tenant: the one the entry's
\* adminRef identified when the request arrived
DeletedAdmins(r) == {a \in r.pre.admins : a.id = r.org.admin_id}

\* C13 (cascade): after a successful delete(name) the Directory has no entry
\* for name, the partition the entry referenced no longer exists and no
\* Credential has tenantName = name.
C13_DeleteCascades ==
    \A p \in Workers :
        (Answered(p, "delete") /\ reqs[p].status = 200)
        => /\ \A o \in orgs : o.organization_name # reqs[p].org_name
           /\ reqs[p].org.collection_name \notin DOMAIN colls
           /\ \A a \in admins : a.organization_name # reqs[p].org_name

\* C13: after a successful delete(name) of an active tenant the cascade is
\* complete (C13_DeleteCascades) and a login with the deleted admin's email and
\* password is rejected.
C13_DeletedAdminLocked ==
    /\ C13_DeleteCascades
    /\ \A p \in Workers :
           (Answered(p, "delete") /\ reqs[p].status = 200)
           => \A d \in DeletedAdmins(reqs[p]), pw \in Passwords :
                  verify_password(pw, d.password)
                  => LoginOutcome(admins, d.email, pw).status # 200

\* C14: create(name) when name is already in the Directory, and
\* rename(currentName, newName) when newName belongs to another Directory
\* entry, are answered AlreadyExists (400), and a request answered so leaves
\* the Directory, all Credentials and all partitions exactly as they were.
C14_TakenNameChangesNothing ==
    \A p \in Workers :
        /\ (/\ Answered(p, "create")
            /\ \E o \in reqs[p].pre.orgs : o.organization_name = reqs[p].org_name)
           => reqs[p].status = 400
        /\ (/\ Answered(p, "update") /\ reqs[p].rename
            /\ \E o \in reqs[p].pre.orgs :
                   o.organization_name = reqs[p].new_name /\ o.id # reqs[p].org.id)
           => reqs[p].status = 400
        /\ (/\ reqs[p].op \in {"create", "update"} /\ reqs[p].pc = "done"
            /\ reqs[p].status = 400)
           => Pre = reqs[p].pre

\* a rename of a tenant whose partition holds a record was rejected because the
\* new name belongs to another entry
C14_Witness ==
    \E p \in Workers :
        /\ Answered(p, "update") /\ reqs[p].status = 400
        /\ find(colls, reqs[p].org.collection_name) # <<>>
        /\ \E o \in orgs :
               o.organization_name = reqs[p].new_name /\ o.id # reqs[p].org.id

\* the reference function of the specification: one separator for each interior
\* run of whitespace
RECURSIVE CollapseRuns(_)
CollapseRuns(s) ==
    IF s = <<>> THEN <<>>
    ELSE IF IsSpace(Head(s)) THEN <<"_">> \o CollapseRuns(LStrip(Tail(s)))
    ELSE <<Head(s)>> \o CollapseRuns(Tail(s))

\* trims, lowercases, replaces every interior run of whitespace with a single
\* separator and prefixes the fixed tag
ReferencePartitionId(name) ==
    <<"o", "r", "g", "_">> \o CollapseRuns(lower(strip(name)))

\* C15: derivePartitionId(name) equals the reference function (trim, lowercase,
\* every interior run of one or more whitespace characters replaced with a
\* single separator, fixed prefix) for every non-empty name over a bounded
\* alphabet, names with consecutive interior spaces included.
C15_MatchesReference ==
    \A p \in Workers :
        Answered(p, "derive")
        => reqs[p].collection_name = ReferencePartitionId(reqs[p].org_name)

\* C15 for the names whose interior whitespace is single spaces only: there the
\* two functions agree
C15_MatchesReferenceSingleSpaces ==
    \A p \in Workers :
        (/\ Answered(p, "derive")
         /\ LET s == strip(reqs[p].org_name)
            IN  \A i \in 1..Len(s) :
                    IsSpace(s[i]) => s[i] = " " /\ ~IsSpace(s[i + 1]))
        => reqs[p].collection_name = ReferencePartitionId(reqs[p].org_name)

\* the error outcome a login request was answered with
ErrorOf(r) == [status |-> r.status, detail |-> r.detail]

\* the login request r names an email no Credential has
UnknownEmail(r) == \A a \in r.pre.admins : a.email # r.email

\* the login request r names a known email with a password that does not verify
WrongPassword(r) ==
    /\ ~UnknownEmail(r)
    /\ ~verify_password(r.password,
            find_one({a \in r.pre.admins : a.email = r.email}).password)

\* C16: login with an unknown email is answered exactly as login with a known
\* email and a wrong password is (same status, same detail), and in both cases
\* no token is issued and no store changes.
C16_LoginErrorsIdentical ==
    \A p \in Workers :
        Answered(p, "login")
        => /\ UnknownEmail(reqs[p]) => ErrorOf(reqs[p]) = WrongPasswordError
           /\ WrongPassword(reqs[p]) => ErrorOf(reqs[p]) = UnknownEmailError
           /\ (UnknownEmail(reqs[p]) \/ WrongPassword(reqs[p]))
              => /\ reqs[p].token = NoDoc
                 /\ reqs[p].token \notin tokens
                 /\ Pre = reqs[p].pre

\* a login with a known email and a wrong password has been answered
C16_Witness ==
    \E p \in Workers :
        /\ Answered(p, "login") /\ WrongPassword(reqs[p])
        /\ reqs[p].status = 401

\* what a handler makes of the stores S when it runs alone from arrival to
\* response: the composition of its steps
CreateEffect(S, r) ==
    IF \E o \in S.orgs : o.organization_name = r.org_name THEN S
    ELSE LET name == get_org_collection_name(r.org_name)
             dummy == [id |-> ObjectId("init", r.k), val |-> "init_doc"]
         IN  [orgs |-> S.orgs \cup {org_doc(r.k, r.org_name)},
              admins |-> S.admins
                  \cup {admin_doc(r.k, r.email, r.password, r.org_name)},
              colls |-> delete_one(insert_one(S.colls, name, dummy), name, dummy.id)]

CredentialEffect(as, r) ==
    LET found == {a \in as : a.organization_name = AdminLookupName(r)}
    IN  IF found = {} THEN as
        ELSE {IF a.id = find_one(found).id
              THEN ApplyAdminUpdates(a, r.new_email, r.new_password)
              ELSE a : a \in as}

RenameEffect(S, r, org) ==
    LET docs == find(S.colls, org.collection_name)
        res == IF docs = <<>> THEN [colls |-> S.colls, ok |-> TRUE]
               ELSE insert_many(S.colls, get_org_collection_name(r.new_name), docs)
    IN  IF \E o \in S.orgs : o.organization_name = r.new_name /\ o.id # org.id
        THEN S
        ELSE IF ~res.ok THEN [S EXCEPT !.colls = res.colls]
        ELSE [orgs |-> {IF o.id = org.id THEN ApplyOrgUpdates(o, r.new_name)
                        ELSE o : o \in S.orgs},
              admins |-> CredentialEffect(
                  RenameAdminRefs(S.admins, r.current_name, r.new_name), r),
              colls |-> drop_collection(res.colls, org.collection_name)]

UpdateEffect(S, r) ==
    LET found == {o \in S.orgs : o.organization_name = r.current_name}
    IN  IF found = {} THEN S
        ELSE IF r.rename THEN RenameEffect(S, r, find_one(found))
        ELSE [S EXCEPT !.admins = CredentialEffect(S.admins, r)]

DeleteEffect(S, r) ==
    LET found == {o \in S.orgs : o.organization_name = r.org_name}
    IN  IF found = {} THEN S
        ELSE [orgs |-> {o \in S.orgs : o.id # find_one(found).id},
              admins |-> {a \in S.admins : a.organization_name # r.org_name},
              colls |-> drop_collection(S.colls, find_one(found).collection_name)]

Effect(S, r) ==
    IF r.op = "create" THEN CreateEffect(S, r)
    ELSE IF r.op = "update" THEN UpdateEffect(S, r)
    ELSE DeleteEffect(S, r)

\* worker p has answered a create, rename or delete whose inputs the handler
\* has read (its token was accepted and its tenant found)
LifecycleAnswered(p) ==
    /\ reqs[p].op \in {"create", "update", "delete"} /\ reqs[p].pc = "done"
    /\ reqs[p].op # "create" => reqs[p].org # NoDoc

\* a request handled alone changes the stores as Effect says (holds when
\* requests are handled one at a time)
EffectOfOneRequest ==
    \A p \in Workers : LifecycleAnswered(p) => Pre = Effect(reqs[p].pre, reqs[p])

\* C17: two create/rename/delete operations for different tenant names, handled
\* at the same time, end in the state that running the two one after the other,
\* in one order or the other, ends in.
C17_DifferentNamesSerializable ==
    (/\ LifecycleAnswered(1) /\ LifecycleAnswered(2)
     /\ OpName(reqs[1]) # OpName(reqs[2]))
    => LET S0 == reqs[1].pre
       IN  \/ Pre = Effect(Effect(S0, reqs[1]), reqs[2])
           \/ Pre = Effect(Effect(S0, reqs[2]), reqs[1])

\* the token of request r does not verify, or is expired
BadToken(r) == ~r.signed \/ r.admin.exp < now

\* C18: an update or delete that presents a token which is expired or does not
\* verify is answered Unauthenticated (401) before the Directory is read and
\* with no store changed; a valid token for the wrong tenant is answered
\* Forbidden (403), a different outcome.
C18_UnauthenticatedFirst ==
    \A p \in Workers :
        (reqs[p].op \in {"update", "delete"} /\ reqs[p].pc = "done")
        => /\ BadToken(reqs[p])
              => /\ reqs[p].status = 401
                 /\ reqs[p].org = NoDoc
                 /\ Pre = reqs[p].pre
           /\ (~BadToken(reqs[p])
               /\ reqs[p].admin.organization_name # strip(reqs[p].target))
              => reqs[p].status = 403
           /\ reqs[p].status = 401 => BadToken(reqs[p])

\* a token the server signed is presented after it expired, for its own tenant,
\* which is in the Directory, and the request is answered 401
C18_Witness ==
    \E p \in Workers :
        /\ reqs[p].op \in {"update", "delete"} /\ reqs[p].pc = "done"
        /\ reqs[p].status = 401
        /\ reqs[p].signed /\ reqs[p].admin.exp < now
        /\ reqs[p].admin.organization_name = strip(reqs[p].target)
        /\ \E o \in orgs : o.organization_name = strip(reqs[p].target)

\* the Directory entries (as request r found the Directory) of the admin the
\* token of r names, under another name than the token carries: the tenant was
\* renamed after the token was issued
RenamedSince(r) ==
    {o \in r.pre.orgs : /\ str(o.admin_id) = r.admin.admin_id
                        /\ o.organization_name # r.admin.organization_name}

\* C19: after a rename, a login by the tenant's admin issues a token whose
\* tenantName is the name of the Directory entry whose adminRef is that admin
\* (the new name); a token issued before the rename is answered Forbidden
\* against the new name, and NotFound against the old name while the old name
\* is absent from the Directory, and changes nothing.
C19_TokenFollowsRename ==
    \A p \in Workers :
        /\ (Answered(p, "login") /\ reqs[p].status = 200)
           => \A o \in orgs :
                  o.admin_id = reqs[p].admin_doc.id
                  => reqs[p].token.organization_name = o.organization_name
        /\ (/\ reqs[p].op \in {"update", "delete"} /\ reqs[p].pc = "done"
            /\ ~BadToken(reqs[p]))
           => \A o \in RenamedSince(reqs[p]) :
                  /\ strip(reqs[p].target) = o.organization_name
                     => reqs[p].status = 403 /\ Pre = reqs[p].pre
                  /\ (/\ strip(reqs[p].target) = reqs[p].admin.organization_name
                      /\ \A o2 \in reqs[p].pre.orgs :
                             o2.organization_name # reqs[p].admin.organization_name)
                     => reqs[p].status = 404 /\ Pre = reqs[p].pre

\* the admin of a renamed tenant has logged in again: the token issued before
\* the rename carries the old name, the one just issued the new name
C19_Witness ==
    \E p \in Workers :
        /\ Answered(p, "login") /\ reqs[p].status = 200
        /\ \E o \in orgs :
               /\ o.admin_id = reqs[p].admin_doc.id
               /\ reqs[p].token.organization_name = o.organization_name
        /\ \E t \in tokens :
               /\ t.admin_id = reqs[p].token.admin_id
               /\ t.organization_name # reqs[p].token.organization_name

====
